---- MODULE Spec2Model ----
(***************************************************************************)
(* Model of api/database.py: a Quart application that opens one asyncpg    *)
(* connection at start-up (app.db), closes it at shut-down, and offers     *)
(* three data operations on the table "mytable" through that connection:   *)
(* create_example_table, insert_data and get_data.                         *)
(*                                                                         *)
(* The database server and the asyncpg driver are the environment of the   *)
(* program.  They are modelled by what PostgreSQL and asyncpg do for the   *)
(* three statements of the source:                                         *)
(*   - a statement the server rejects has no effect on the table;          *)
(*   - the server's answer is delivered together with the statement's      *)
(*     effect (no answer is lost after the effect took place);             *)
(*   - exceptions keep the class hierarchy of asyncpg, because the except  *)
(*     clauses of the source select on it.                                 *)
(*                                                                         *)
(* Two specifications are given.  Spec runs the handlers one request at a  *)
(* time.  SpecConc splits every data operation at its only suspension      *)
(* point (the await of the driver call), so that requests interleave on    *)
(* the single shared connection.                                           *)
(***************************************************************************)
EXTENDS Integers, Sequences, FiniteSets, TLC

VARIABLES
    phase,        \* life cycle of the service
    db,           \* app.db, the process-wide connection handle
    connectExc,   \* exception asyncpg.connect raised at start-up ("none" if none)
    tableExists,  \* database: does mytable exist
    rows,         \* database: the rows of mytable, in heap order
    seq,          \* database: last value of the sequence behind "id SERIAL"
    inserted,     \* number of insert_data calls that returned their success message
    last,         \* the latest completed data operation: inputs, pre-state, result
    prev,         \* the data operation completed before it
    tasks,        \* SpecConc: the in-flight request handlers
    busy          \* SpecConc: the task whose statement the connection is executing (0: none)

vars == <<phase, db, connectExc, tableExists, rows, seq, inserted, last, prev, tasks, busy>>

(***************************************************************************)
(* Bounds of the model.                                                    *)
(***************************************************************************)
MaxRows == 2      \* rows the table may hold
MaxSeq == 3       \* values the id sequence may hand out
NumTasks == 2     \* concurrent request handlers of SpecConc

(***************************************************************************)
(* Constants of the schema (CREATE TABLE statement of the source).         *)
(***************************************************************************)
VarcharLimit == 255

(***************************************************************************)
(* Exceptions.  asyncpg.exceptions.PostgresError is the base class of the  *)
(* errors the server reports and of the connection errors                  *)
(* (PostgresConnectionError).  InterfaceError (client-side misuse of the   *)
(* driver) is not a PostgresError; neither are Python's AttributeError and *)
(* OSError (ConnectionRefusedError).                                       *)
(***************************************************************************)
PostgresError ==
    { "InvalidPasswordError", "InvalidCatalogNameError", "ConnectionDoesNotExistError",
      "UndefinedTableError", "StringDataRightTruncationError", "UniqueViolationError",
      "DuplicateTableError" }

\* What asyncpg.connect can do at start-up: succeed ("none"), be refused by the
\* server (credentials rejected, database missing), or find no server to talk to.
ConnectOutcomes ==
    { "none", "InvalidPasswordError", "InvalidCatalogNameError", "ConnectionRefusedError" }

(***************************************************************************)
(* Inputs of insert_data.  A name is a sequence of characters.             *)
(***************************************************************************)
Spaces(n) == [i \in 1..n |-> " "]

Letters(n) == [i \in 1..n |-> "x"]

Alice == <<"A", "l", "i", "c", "e">>

Names ==
    { Alice,                                        \* short
      Alice \o Spaces(VarcharLimit - Len(Alice)),   \* exactly the limit
      Alice \o Spaces(VarcharLimit + 1 - Len(Alice)),  \* one space too long
      Letters(VarcharLimit + 1) }                   \* one letter too long

Ages == { 30, 41 }

(***************************************************************************)
(* Values returned to the caller of a data operation.  kind "raise" is an  *)
(* exception leaving the operation; exc remembers the exception the driver *)
(* call raised, also when the operation caught it.                         *)
(***************************************************************************)
Message(text) == [kind |-> "message", text |-> text, exc |-> "none", out |-> <<>>]

ErrorPayload(text, e) == [kind |-> "error", text |-> text, exc |-> e, out |-> <<>>]

Records(out) == [kind |-> "rows", text |-> "", exc |-> "none", out |-> out]

Raised(e) == [kind |-> "raise", text |-> "", exc |-> e, out |-> <<>>]

NoResult == [kind |-> "none", text |-> "", exc |-> "none", out |-> <<>>]

NoCall ==
    [op |-> "none", name |-> <<>>, age |-> 0, dbBefore |-> "unset",
     existed |-> FALSE, before |-> <<>>, res |-> NoResult]

(***************************************************************************)
(* The database: what the server does with each statement of the source.   *)
(* Every operator maps the table's state to the answer and the new state.  *)
(***************************************************************************)
Answer(e, out, exists, rws, sq) ==
    [exc |-> e, out |-> out, tableExists |-> exists, rows |-> rws, seq |-> sq]

Ids(rws) == { rws[i].id : i \in 1..Len(rws) }

\* Assignment of a string to a VARCHAR(255) column: a longer string is an error,
\* unless the excess characters are all spaces, and then it is cut to the limit.
VarcharAssign(s) ==
    IF Len(s) <= VarcharLimit THEN [ok |-> TRUE, val |-> s]
    ELSE IF \A i \in (VarcharLimit + 1)..Len(s) : s[i] = " "
         THEN [ok |-> TRUE, val |-> SubSeq(s, 1, VarcharLimit)]
         ELSE [ok |-> FALSE, val |-> <<>>]

\* Variant: the table is dropped and created again instead of being kept
\* (DROP TABLE IF EXISTS followed by CREATE TABLE).
CreateTableDropFirst(exists, rws, sq) ==
    Answer("none", <<>>, TRUE, <<>>, 0)

\* CREATE TABLE IF NOT EXISTS mytable (id SERIAL PRIMARY KEY, name VARCHAR(255), age INT)
CreateTableIfNotExists(exists, rws, sq) ==
    IF exists THEN Answer("none", <<>>, TRUE, rws, sq)
    ELSE Answer("none", <<>>, TRUE, <<>>, 0)

\* Variant: the statement names the column name only
\* (INSERT INTO mytable (name) VALUES ($1)); age takes the column's default.
InsertNameOnly(exists, rws, sq, name, age) ==
    IF ~exists THEN Answer("UndefinedTableError", <<>>, exists, rws, sq)
    ELSE LET v == VarcharAssign(name)
         IN IF ~v.ok THEN Answer("StringDataRightTruncationError", <<>>, exists, rws, sq + 1)
            ELSE Answer("none", <<>>, exists,
                        Append(rws, [id |-> sq + 1, name |-> v.val, age |-> 0]), sq + 1)

\* Variant: the column is unbounded text and the length is checked by a second
\* statement after the row was stored, so a rejected name leaves its row behind.
InsertThenCheck(exists, rws, sq, name, age) ==
    IF ~exists THEN Answer("UndefinedTableError", <<>>, exists, rws, sq)
    ELSE LET stored == Append(rws, [id |-> sq + 1, name |-> name, age |-> age])
         IN IF Len(name) > VarcharLimit
            THEN Answer("StringDataRightTruncationError", <<>>, exists, stored, sq + 1)
            ELSE Answer("none", <<>>, exists, stored, sq + 1)

\* INSERT INTO mytable (name, age) VALUES ($1, $2).  The table must exist; then
\* the server evaluates the row: id from the sequence, name assigned to
\* VARCHAR(255), age as given (every integer of the model fits INT), and the
\* primary key checked.  The sequence keeps the value a failed row consumed.
InsertInto(exists, rws, sq, name, age) ==
    IF ~exists THEN Answer("UndefinedTableError", <<>>, exists, rws, sq)
    ELSE LET id == sq + 1
             v == VarcharAssign(name)
         IN IF ~v.ok THEN Answer("StringDataRightTruncationError", <<>>, exists, rws, id)
            ELSE IF id \in Ids(rws) THEN Answer("UniqueViolationError", <<>>, exists, rws, id)
            ELSE Answer("none", <<>>, exists,
                        Append(rws, [id |-> id, name |-> v.val, age |-> age]), id)

\* SELECT * FROM mytable
SelectAll(exists, rws, sq) ==
    IF ~exists THEN Answer("UndefinedTableError", <<>>, exists, rws, sq)
    ELSE Answer("none", rws, exists, rws, sq)

Statement(op, name, age) ==
    CASE op = "create" -> CreateTableIfNotExists(tableExists, rows, seq)
      [] op = "insert" -> InsertInto(tableExists, rows, seq, name, age)
      [] op = "get" -> SelectAll(tableExists, rows, seq)

(***************************************************************************)
(* app.db.execute / app.db.fetch: the driver call of a data operation.     *)
(* Reading app.db when start-up never set it is an AttributeError; a       *)
(* connection that is closed refuses the call with an InterfaceError; a    *)
(* connection that breaks during the round trip (lostNow) ends the call    *)
(* with ConnectionDoesNotExistError and leaves the statement unexecuted.   *)
(* The answer carries the handle's state after the call in field db.       *)
(***************************************************************************)
Failed(e, h) ==
    [exc |-> e, out |-> <<>>, tableExists |-> tableExists, rows |-> rows,
     seq |-> seq, db |-> h]

DbCall(op, name, age, lostNow) ==
    IF db = "unset" THEN Failed("AttributeError", db)
    ELSE IF db # "open" THEN Failed("InterfaceError", db)
    ELSE IF lostNow THEN Failed("ConnectionDoesNotExistError", "lost")
    ELSE LET a == Statement(op, name, age)
         IN [exc |-> a.exc, out |-> a.out, tableExists |-> a.tableExists,
             rows |-> a.rows, seq |-> a.seq, db |-> db]

(***************************************************************************)
(* The try/except of each data operation, applied to the driver call's     *)
(* answer r.                                                               *)
(***************************************************************************)
create_example_table(r) ==
    IF r.exc = "none" THEN Message("Example table created successfully")
    ELSE IF r.exc = "DuplicateTableError" THEN Message("Table already exists")
    ELSE Raised(r.exc)

\* Variant: the except clause reports success.
insert_data_swallow(r) ==
    IF r.exc = "none" \/ r.exc \in PostgresError THEN Message("Data inserted successfully")
    ELSE Raised(r.exc)

insert_data(r) ==
    IF r.exc = "none" THEN Message("Data inserted successfully")
    ELSE IF r.exc \in PostgresError THEN ErrorPayload("Error inserting data", r.exc)
    ELSE Raised(r.exc)

\* Variant: fetchrow instead of fetch, which answers with the first row only.
get_data_fetchrow(r) ==
    IF r.exc = "none" THEN Records(SubSeq(r.out, 1, IF Len(r.out) > 0 THEN 1 ELSE 0))
    ELSE IF r.exc \in PostgresError THEN ErrorPayload("Error fetching data", r.exc)
    ELSE Raised(r.exc)

get_data(r) ==
    IF r.exc = "none" THEN Records(r.out)
    ELSE IF r.exc \in PostgresError THEN ErrorPayload("Error fetching data", r.exc)
    ELSE Raised(r.exc)

Handler(op, r) ==
    CASE op = "create" -> create_example_table(r)
      [] op = "insert" -> insert_data(r)
      [] op = "get" -> get_data(r)

(***************************************************************************)
(* Spec: the service handling one request at a time.                       *)
(***************************************************************************)
InitCommon ==
    /\ phase = "created"
    /\ db = "unset"
    /\ connectExc = "none"
    /\ tableExists = FALSE
    /\ rows = <<>>
    /\ seq = 0
    /\ inserted = 0
    /\ last = NoCall
    /\ prev = NoCall
    /\ busy = 0

IdleTask == [pc |-> "idle", op |-> "none", name |-> <<>>, age |-> 0,
             overlapped |-> FALSE, res |-> NoResult]

Init ==
    /\ InitCommon
    /\ tasks = [t \in 1..NumTasks |-> IdleTask]

\* init_db, run by create_db_connection before serving.  A PostgresError is
\* printed and swallowed; any other exception leaves the hook and start-up fails.
Startup(outcome) ==
    /\ phase = "created"
    /\ connectExc' = outcome
    /\ db' = IF outcome = "none" THEN "open" ELSE "unset"
    /\ phase' = IF outcome = "none" \/ outcome \in PostgresError
                THEN "serving" ELSE "startup_failed"
    /\ UNCHANGED <<tableExists, rows, seq, inserted, last, prev, tasks, busy>>

\* The effect of a completed data operation on the database and on the record
\* of calls.
Completed(op, name, age, r, res) ==
    /\ db' = r.db
    /\ tableExists' = r.tableExists
    /\ rows' = r.rows
    /\ seq' = r.seq
    /\ inserted' = IF op = "insert" /\ res.kind = "message" THEN inserted + 1 ELSE inserted
    /\ prev' = last
    /\ last' = [op |-> op, name |-> name, age |-> age, dbBefore |-> db,
                existed |-> tableExists, before |-> rows, res |-> res]

CreateExampleTable(lostNow) ==
    /\ phase = "serving"
    /\ LET r == DbCall("create", <<>>, 0, lostNow)
       IN Completed("create", <<>>, 0, r, create_example_table(r))
    /\ UNCHANGED <<phase, connectExc, tasks, busy>>

InsertData(name, age, lostNow) ==
    /\ phase = "serving"
    /\ Len(rows) < MaxRows
    /\ seq < MaxSeq
    /\ LET r == DbCall("insert", name, age, lostNow)
       IN Completed("insert", name, age, r, insert_data(r))
    /\ UNCHANGED <<phase, connectExc, tasks, busy>>

GetData(lostNow) ==
    /\ phase = "serving"
    /\ LET r == DbCall("get", <<>>, 0, lostNow)
       IN Completed("get", <<>>, 0, r, get_data(r))
    /\ UNCHANGED <<phase, connectExc, tasks, busy>>

\* The server or the network ends the session while no statement is running.
ConnectionLost ==
    /\ phase = "serving"
    /\ db = "open"
    /\ busy = 0
    /\ db' = "lost"
    /\ UNCHANGED <<phase, connectExc, tableExists, rows, seq, inserted, last, prev,
                   tasks, busy>>

\* close_db_connection, run after serving: await app.db.close().  Reading app.db
\* when it was never set raises AttributeError out of the hook.
Shutdown ==
    /\ phase = "serving"
    /\ \A t \in 1..NumTasks : tasks[t].pc # "awaiting"
    /\ phase' = IF db = "unset" THEN "shutdown_failed" ELSE "stopped"
    /\ db' = IF db = "unset" THEN "unset" ELSE "closed"
    /\ UNCHANGED <<connectExc, tableExists, rows, seq, inserted, last, prev, tasks, busy>>

Next ==
    \/ \E outcome \in ConnectOutcomes : Startup(outcome)
    \/ \E lostNow \in BOOLEAN : CreateExampleTable(lostNow)
    \/ \E name \in Names, age \in Ages, lostNow \in BOOLEAN : InsertData(name, age, lostNow)
    \/ \E lostNow \in BOOLEAN : GetData(lostNow)
    \/ ConnectionLost
    \/ Shutdown

Spec == Init /\ [][Next]_vars

(***************************************************************************)
(* SpecConc: requests interleaving on the one connection.  A data          *)
(* operation runs from its call to the await of the driver call (Begin),   *)
(* is suspended during the round trip, and resumes with the answer         *)
(* (Finish).  asyncpg does not queue statements: a call made while another *)
(* statement is in progress on the connection is refused at once with      *)
(* InterfaceError ("another operation is in progress").                    *)
(***************************************************************************)
Tasks == 1..NumTasks

Ops == { "create", "insert", "get" }

InFlight(t) == \E u \in Tasks \ {t} : tasks[u].pc = "awaiting"

\* The exception, if any, that ends the driver call before it suspends.
Refusal(t) ==
    IF db = "unset" THEN "AttributeError"
    ELSE IF db # "open" THEN "InterfaceError"
    ELSE IF busy # 0 THEN "InterfaceError"
    ELSE "none"

Begin(t, op, name, age) ==
    /\ phase = "serving"
    /\ tasks[t].pc = "idle"
    /\ op = "insert" => Len(rows) < MaxRows /\ seq < MaxSeq
    /\ LET e == Refusal(t)
           call == [op |-> op, name |-> name, age |-> age]
       IN IF e = "none"
          THEN /\ busy' = t
               /\ tasks' = [tasks EXCEPT ![t] =
                               call @@ [pc |-> "awaiting", overlapped |-> FALSE,
                                        res |-> NoResult]]
          ELSE /\ busy' = busy
               /\ tasks' = [u \in Tasks |->
                               IF u = t
                               THEN [op |-> op, name |-> <<>>, age |-> 0, pc |-> "idle",
                                     overlapped |-> InFlight(t),
                                     res |-> Handler(op, Failed(e, db))]
                               ELSE IF tasks[u].pc = "awaiting"
                                    THEN [tasks[u] EXCEPT !.overlapped = TRUE]
                                    ELSE tasks[u]]
    /\ UNCHANGED <<phase, db, connectExc, tableExists, rows, seq, inserted, last, prev>>

Finish(t, lostNow) ==
    /\ tasks[t].pc = "awaiting"
    /\ busy = t
    /\ LET r == DbCall(tasks[t].op, tasks[t].name, tasks[t].age, lostNow)
           res == Handler(tasks[t].op, r)
       IN /\ db' = r.db
          /\ tableExists' = r.tableExists
          /\ rows' = r.rows
          /\ seq' = r.seq
          /\ inserted' = IF tasks[t].op = "insert" /\ res.kind = "message"
                         THEN inserted + 1 ELSE inserted
          /\ tasks' = [tasks EXCEPT ![t].pc = "idle", ![t].res = res,
                                    ![t].name = <<>>, ![t].age = 0]
    /\ busy' = 0
    /\ UNCHANGED <<phase, connectExc, last, prev>>

NextConc ==
    \/ \E outcome \in ConnectOutcomes : Startup(outcome)
    \/ \E t \in Tasks, op \in {"create", "get"} : Begin(t, op, <<>>, 0)
    \/ \E t \in Tasks, name \in Names, age \in Ages : Begin(t, "insert", name, age)
    \/ \E t \in Tasks, lostNow \in BOOLEAN : Finish(t, lostNow)
    \/ ConnectionLost
    \/ Shutdown

SpecConc == Init /\ [][NextConc]_vars

(***************************************************************************)
(* Properties.  A call "succeeded" when it returned its message or rows;   *)
(* it "returned an error payload" when res.kind = "error"; an exception    *)
(* left it when res.kind = "raise".                                        *)
(***************************************************************************)
Returned(res) == res.kind \in {"message", "rows", "error"}

\* C1: after a start-up whose connection attempt failed and left app.db unset,
\* every data operation invoked returns an error payload to its caller.
C1_DegradedOperationsReturnError ==
    (last.op # "none" /\ last.dbBefore = "unset") => last.res.kind = "error"

\* C2: every database error (a PostgresError) the driver reports to one of the
\* three data operations on an open connection is returned by that operation as
\* an error payload, never raised out of it.
C2_DatabaseErrorsAreReturned ==
    (last.op # "none" /\ last.dbBefore = "open" /\ last.res.exc \in PostgresError)
        => last.res.kind = "error"

\* The record an insert is announced to have stored, in the rows a later
\* get_data returned: name as given, age as given, id not in the table before.
HoldsRecord(out, name, age, before) ==
    \E i \in 1..Len(out) :
        /\ out[i].name = name
        /\ out[i].age = age
        /\ out[i].id \notin Ids(before)

FirstChars(s, n) == SubSeq(s, 1, IF Len(s) < n THEN Len(s) ELSE n)

\* C3 as stated: a successful insert_data(name, age) followed by get_data on the
\* open connection yields rows holding a record with exactly that name and age
\* and an id no record of the table had before the insert.
C3_InsertRoundTrip ==
    (prev.op = "insert" /\ prev.res.kind = "message" /\ last.op = "get" /\ db = "open")
        => /\ last.res.kind = "rows"
           /\ HoldsRecord(last.res.out, prev.name, prev.age, prev.before)

\* C3 amended: a successful insert_data(name, age) followed by get_data on the
\* open connection yields rows holding a record with that age, an id no record
\* of the table had before the insert, and the first 255 characters of the name
\* (the whole name when it is no longer than that).
C3_InsertRoundTripUpToLimit ==
    (prev.op = "insert" /\ prev.res.kind = "message" /\ last.op = "get" /\ db = "open")
        => /\ last.res.kind = "rows"
           /\ HoldsRecord(last.res.out, FirstChars(prev.name, VarcharLimit), prev.age,
                          prev.before)

\* Witness of C3: a name longer than the limit was inserted successfully into a
\* table that already held a row, and get_data then returned the rows.
C3_Witness ==
    /\ prev.op = "insert" /\ prev.res.kind = "message"
    /\ Len(prev.name) > VarcharLimit
    /\ Len(prev.before) >= 1
    /\ last.op = "get" /\ last.res.kind = "rows"
    /\ db = "open"

\* C4: the table holds as many rows as insert_data calls have succeeded, their
\* ids are pairwise distinct, and every id is a value the table's sequence
\* handed out (none comes from a caller).
C4_IdsDistinct ==
    /\ Len(rows) = inserted
    /\ \A i, j \in 1..Len(rows) : i # j => rows[i].id # rows[j].id
    /\ \A i \in 1..Len(rows) : rows[i].id \in 1..seq

\* Witness of C4: two inserts succeeded and one failed in between or before
\* (the sequence is ahead of the row count), with create_example_table and
\* get_data called afterwards.
C4_Witness ==
    /\ inserted = 2
    /\ seq > 2
    /\ prev.op = "create"
    /\ last.op = "get" /\ last.res.kind = "rows"

C6_EnsureSchemaIdempotent ==
    (last.op = "create" /\ last.dbBefore = "open" /\ db = "open")
        => /\ last.res.kind = "message"
           /\ tableExists
           /\ last.existed => rows = last.before

\* Witness of C6: create_example_table called twice in a row on an existing
\* table that holds a row, both calls returning the success message.
C6_Witness ==
    /\ prev.op = "create" /\ prev.res.kind = "message" /\ prev.existed
    /\ last.op = "create" /\ last.res.kind = "message" /\ last.existed
    /\ Len(last.before) >= 1
    /\ db = "open"

\* C7: a get_data call made and completed with the connection open and the
\* table existing returns exactly the rows of the table (the empty sequence for
\* an empty table) and leaves the table unchanged.
C7_ListReturnsAllRows ==
    (last.op = "get" /\ last.dbBefore = "open" /\ db = "open" /\ last.existed)
        => /\ last.res.kind = "rows"
           /\ last.res.out = last.before
           /\ rows = last.before
           /\ tableExists

\* Witness of C7: get_data right after create_example_table created the table
\* returned the empty sequence.
C7_Witness ==
    /\ prev.op = "create" /\ ~prev.existed /\ prev.res.kind = "message"
    /\ last.op = "get" /\ last.res = Records(<<>>)
    /\ db = "open"

\* C8: whatever made the connection attempt at start-up fail, the failure is
\* not escalated: the service reaches its serving state with app.db unset.
C8_StartupFailureNotEscalated ==
    connectExc # "none" => (phase # "startup_failed" /\ db = "unset")

\* C9: the shutdown hook completes without raising from every state in which
\* the service stops, and leaves no connection open.
C9_ShutdownCloses ==
    /\ phase # "shutdown_failed"
    /\ phase = "stopped" => db = "closed"

\* C10: a data operation that was in flight together with another one on the
\* shared connection ends by returning its result or an error payload.
C10_OverlappedOperationsReturn ==
    \A t \in Tasks :
        (tasks[t].overlapped /\ tasks[t].pc = "idle") => Returned(tasks[t].res)

====
